---- MODULE Spec2Model ----
(***************************************************************************)
(* A model of protocol/decode.go: the bounded frame reader (decoder), its  *)
(* sticky error and drain, the typed readers, the array decoder and the    *)
(* schema compiler that turns a record type and a version into a plan of   *)
(* field decode operations.                                                *)
(*                                                                         *)
(* One behaviour is one decode session over one byte source.  A session is *)
(* either a sequence of direct calls of the decoder's methods (mode "ops") *)
(* or the execution of one compiled plan, one field per step (mode "plan").*)
(***************************************************************************)
EXTENDS Integers, Sequences, FiniteSets, TLC

VARIABLES
    src,      \* the bytes the underlying source (d.reader) holds, in order
    kind,     \* "discarder": d.reader has Discard; "plain": it has not
    fail,     \* the error the source returns once its bytes are used up
    budget,   \* the frame length L the session was created with
    d,        \* the decoder: remain, err, the source cursor, ghost fields
    mode,     \* "ops" or "plan"
    typ,      \* the record type being decoded (mode "plan")
    version,  \* the version the plan was compiled for
    plan,     \* the compiled plan: sequence of [decode, index, tag]
    pc,       \* the index of the next plan entry to run
    dest,     \* the destination record: one value per declared field
    written,  \* the indexes of the fields of dest a plan step has written
    last      \* the last operation: its name, argument, result, state before

vars == <<src, kind, fail, budget, d, mode, typ, version, plan, pc, dest, written, last>>

-----------------------------------------------------------------------------
(* Bounds of the model.                                                    *)

\* the largest frame length a session is created with
MaxBudget == 13

\* the largest length, count or buffer size a direct call is given
MaxArg == 2

\* the most bytes one self-decode takes from the raw source
MaxSelf == 2

\* by how many bytes at most the frame length exceeds what the source holds
MaxShort == 1

\* how many bytes at most follow the frame in the source of a session of
\* direct calls (a session that runs a plan is given every shorter frame)
MaxNext == 1

\* the model follows at most MaxNest calls of setError nested in one another
MaxNest == 3

-----------------------------------------------------------------------------
(* Error values.                                                           *)

None == "nil"
EOF == "io.EOF"
ErrUnexpectedEOF == "io.ErrUnexpectedEOF"
ErrVarInt == "cannot decode varint from input stream"
ErrSource == "source i/o error"
ErrSink == "sink write error"
ErrSelf == "self-decode error"
ErrCaller == "caller error"

Min(a, b) == IF a < b THEN a ELSE b

\* The element of a one-element set.  Only({e(r) : r \in {x}}) is e with r
\* bound to the value of x: the form every definition below uses to name
\* the result of a call, so that the call is evaluated once.
Only(S) == CHOOSE x \in S : TRUE

-----------------------------------------------------------------------------
(* The underlying source, d.reader: it hands out the bytes of src in order *)
(* and, once they are used up, returns (0, fail).                          *)

Avail(dd) == Len(src) - dd.pos

\* the bytes the source handed out between two decoder states
Taken(d0, d1) == SubSeq(src, d0.pos + 1, d1.pos)

-----------------------------------------------------------------------------
(* decoder.Read                                                            *)

\* Read without the cut of b to d.remain
ReadUnclipped(dd, len, c) ==
    IF dd.err # None THEN [d |-> dd, n |-> 0, err |-> dd.err]
    ELSE IF dd.remain = 0 THEN [d |-> dd, n |-> 0, err |-> EOF]
    ELSE IF len = 0 THEN [d |-> dd, n |-> 0, err |-> None]
    ELSE IF Avail(dd) = 0 THEN [d |-> dd, n |-> 0, err |-> fail]
    ELSE LET n == Min(Min(len, Avail(dd)), c)
         IN  [d |-> [dd EXCEPT !.remain = @ - n, !.pos = @ + n],
              n |-> n, err |-> None]

\* c is the number of bytes the source chooses to return when it has some
\* (an io.Reader may return fewer than asked); callers cap it.
Read(dd, len, c) ==
    IF dd.err # None THEN [d |-> dd, n |-> 0, err |-> dd.err]
    ELSE IF dd.remain = 0 THEN [d |-> dd, n |-> 0, err |-> EOF]
    ELSE LET blen == IF len > dd.remain THEN dd.remain ELSE len
         IN  IF blen = 0 THEN [d |-> dd, n |-> 0, err |-> None]
             ELSE IF Avail(dd) = 0 THEN [d |-> dd, n |-> 0, err |-> fail]
             ELSE LET n == Min(Min(blen, Avail(dd)), c)
                  IN  [d |-> [dd EXCEPT !.remain = @ - n, !.pos = @ + n],
                       n |-> n, err |-> None]

\* io.ReadFull(d, b) with len(b) = len: io.ReadAtLeast's loop over d.Read,
\* n bytes read so far
RECURSIVE ReadAtLeast(_, _, _)
ReadAtLeast(dd, len, n) ==
    IF n >= len THEN [d |-> dd, n |-> n, err |-> None]
    ELSE Only({ IF r.err = None THEN ReadAtLeast(r.d, len, n + r.n)
                ELSE [d |-> r.d, n |-> n + r.n,
                      err |-> IF n + r.n >= len THEN None
                              ELSE IF n + r.n > 0 /\ r.err = EOF THEN ErrUnexpectedEOF
                              ELSE r.err]
                : r \in {Read(dd, len - n, len - n)} })

IoReadFull(dd, len) == ReadAtLeast(dd, len, 0)

\* a sink (io.Writer): it accepts cap bytes and then fails, or never fails
Unlimited == [limited |-> FALSE, cap |-> 0]
Limited(cap) == [limited |-> TRUE, cap |-> cap]

\* io.Copy(w, d): read a chunk from d, write it to w, until d.Read returns
\* io.EOF (success) or an error.  c is the number of bytes written so far.
RECURSIVE CopyLoop(_, _, _)
CopyLoop(dd, w, c) ==
    Only({ IF r.n > 0
           THEN IF w.limited /\ c + r.n > w.cap
                THEN [d |-> r.d, c |-> w.cap, err |-> ErrSink]
                ELSE CopyLoop(r.d, w, c + r.n)
           ELSE [d |-> r.d, c |-> c, err |-> IF r.err = EOF THEN None ELSE r.err]
           : r \in {Read(dd, Len(src) + 1, Len(src) + 1)} })

IoCopy(dd, w) == CopyLoop(dd, w, 0)

-----------------------------------------------------------------------------
(* decoder.discard, decoder.discardAll, decoder.setError                   *)

RECURSIVE setError(_, _)

\* the source's Discard(n) (bufio.Reader): skips what it has, up to n, and
\* returns the source's error when that is fewer than n
SourceDiscard(dd, n) ==
    LET k == Min(n, Avail(dd))
    IN  [n |-> k, err |-> IF k < n THEN fail ELSE None]

discard(dd, n0) ==
    LET n == IF n0 > dd.remain THEN dd.remain ELSE n0
    IN  IF kind = "discarder"
        THEN Only({ setError([dd EXCEPT !.remain = @ - r.n, !.pos = @ + r.n], r.err)
                    : r \in {SourceDiscard(dd, n)} })
        ELSE Only({ setError(r.d, r.err) : r \in {IoCopy(dd, Unlimited)} })

discardAll(dd) == discard(dd, dd.remain)

\* a call of setError is entered: one more is active, and nest is the
\* largest number of active calls of setError a call was entered inside
Enter(dd) ==
    [dd EXCEPT !.cur = @ + 1, !.nest = IF dd.cur > @ THEN dd.cur ELSE @]

\* setError without the test of d.err
setErrorAlways(dd, err) ==
    IF dd.cur >= MaxNest THEN [Enter(dd) EXCEPT !.cur = dd.cur]
    ELSE IF err # None
    THEN Only({ [d1 EXCEPT !.cur = dd.cur]
                : d1 \in {discardAll([Enter(dd) EXCEPT !.err = err])} })
    ELSE [Enter(dd) EXCEPT !.cur = dd.cur]

\* Ghost field se: the state in which setError recorded the session's error
\* (remain r, cursor p) and the state in which that call returned (r2, p2).
\* Ghost fields cur and nest: the calls of setError active, and the most
\* that were active when a call was entered; a call entered with MaxNest
\* calls active returns at once.
setError(dd, err) ==
    IF dd.cur >= MaxNest THEN [Enter(dd) EXCEPT !.cur = dd.cur]
    ELSE IF dd.err = None /\ err # None
    THEN Only({ [d1 EXCEPT !.se = [rec |-> TRUE, r |-> dd.remain, p |-> dd.pos,
                                   r2 |-> d1.remain, p2 |-> d1.pos],
                           !.cur = dd.cur]
                : d1 \in {discardAll([Enter(dd) EXCEPT !.err = err])} })
    ELSE [Enter(dd) EXCEPT !.cur = dd.cur]

-----------------------------------------------------------------------------
(* decoder.read, decoder.writeTo, decoder.readFull                         *)

\* a byte array value: nil (absent) or present with its bytes
NilBytes == [nil |-> TRUE, b |-> <<>>]
Bytes(b) == [nil |-> FALSE, b |-> b]

read(dd, n) ==
    Only({ [d |-> setError(r.d, r.err), v |-> Bytes(Taken(dd, r.d))]
           : r \in {IoReadFull(dd, n)} })

\* writeTo without the narrowing of d.remain to n before the copy
writeToWide(dd, w, n) ==
    IF n > dd.remain
    THEN [d |-> setError(dd, ErrUnexpectedEOF), out |-> <<>>]
    ELSE LET remain == dd.remain
         IN  Only({ [d |-> setError([r.d EXCEPT !.remain = remain - n],
                                    IF r.c < n /\ r.err = None THEN ErrUnexpectedEOF
                                    ELSE r.err),
                     out |-> SubSeq(src, dd.pos + 1, dd.pos + r.c)]
                    : r \in {IoCopy(dd, w)} })

\* out: the bytes the sink received
writeTo(dd, w, n) ==
    IF n > dd.remain
    THEN [d |-> setError(dd, ErrUnexpectedEOF), out |-> <<>>]
    ELSE LET remain == dd.remain
         IN  Only({ [d |-> setError([r.d EXCEPT !.remain = remain - n],
                                    IF r.c < n /\ r.err = None THEN ErrUnexpectedEOF
                                    ELSE r.err),
                     out |-> SubSeq(src, dd.pos + 1, dd.pos + r.c)]
                    : r \in {IoCopy(IF n < remain THEN [dd EXCEPT !.remain = n] ELSE dd, w)} })

\* readFull with the error of io.ReadFull dropped
readFullUnchecked(dd, len) ==
    Only({ [d |-> r.d, ok |-> r.n = len, b |-> Taken(dd, r.d)]
           : r \in {IoReadFull(dd, len)} })

\* b: the content of d.buffer[:len] after the call
readFull(dd, len) ==
    Only({ [d |-> setError(r.d, r.err), ok |-> r.n = len, b |-> Taken(dd, r.d)]
           : r \in {IoReadFull(dd, len)} })

-----------------------------------------------------------------------------
(* Fixed-width conversions (big-endian two's complement).                  *)

BeInt16(b) ==
    LET u == b[1] * 256 + b[2]
    IN  IF u >= 32768 THEN u - 65536 ELSE u

BeInt32(b) ==
    (IF b[1] >= 128 THEN b[1] - 256 ELSE b[1]) * 16777216
        + b[2] * 65536 + b[3] * 256 + b[4]

\* A 64-bit signed value v is held as [neg, m]: m is a 63-bit magnitude in
\* three 21-bit limbs, least significant first, and v = M when ~neg and
\* v = -M - 1 when neg (M the number the limbs spell).
I64Zero == [neg |-> FALSE, m |-> <<0, 0, 0>>]

\* int(n) of a non-negative n used as a length: a length of 2^21 or more is
\* beyond every budget of the model and is held as 2^21
IntLen(v) == IF v.m[2] = 0 /\ v.m[3] = 0 THEN v.m[1] ELSE 2^21

\* bit i (0 = least significant) of the 8 big-endian bytes c
BeBit(c, i) == (c[8 - (i \div 8)] \div 2^(i % 8)) % 2

RECURSIVE BeLimb(_, _, _)
BeLimb(c, j, k) ==
    IF k > 20 THEN 0 ELSE BeBit(c, 21 * j + k) * 2^k + BeLimb(c, j, k + 1)

BeInt64(b) ==
    LET neg == b[1] >= 128
        c == IF neg THEN [i \in 1..8 |-> 255 - b[i]] ELSE b
    IN  [neg |-> neg, m |-> <<BeLimb(c, 0, 0), BeLimb(c, 1, 0), BeLimb(c, 2, 0)>>]

bytesToString(v) == v.b

-----------------------------------------------------------------------------
(* The typed readers.                                                      *)

readByte(dd) ==
    Only({ [d |-> r.d, v |-> IF r.ok THEN r.b[1] ELSE 0] : r \in {readFull(dd, 1)} })

readBool(dd) ==
    Only({ [d |-> r.d, v |-> r.v # 0] : r \in {readByte(dd)} })

readInt8(dd) ==
    Only({ [d |-> r.d, v |-> IF r.v >= 128 THEN r.v - 256 ELSE r.v]
           : r \in {readByte(dd)} })

readInt16(dd) ==
    Only({ [d |-> r.d, v |-> IF r.ok THEN BeInt16(r.b) ELSE 0]
           : r \in {readFull(dd, 2)} })

\* readInt32 reading two bytes, as readInt16 does
readInt32Narrow(dd) ==
    Only({ [d |-> r.d, v |-> IF r.ok THEN BeInt16(r.b) ELSE 0]
           : r \in {readFull(dd, 2)} })

readInt32(dd) ==
    Only({ [d |-> r.d, v |-> IF r.ok THEN BeInt32(r.b) ELSE 0]
           : r \in {readFull(dd, 4)} })

readInt64(dd) ==
    Only({ [d |-> r.d, v |-> IF r.ok THEN BeInt64(r.b) ELSE I64Zero]
           : r \in {readFull(dd, 8)} })

readString(dd) ==
    Only({ IF n.v < 0 THEN [d |-> n.d, v |-> <<>>]
           ELSE Only({ [d |-> r.d, v |-> bytesToString(r.v)] : r \in {read(n.d, n.v)} })
           : n \in {readInt16(dd)} })

\* readBytes returning an empty array for a negative length, as readString does
readBytesEmpty(dd) ==
    Only({ IF n.v < 0 THEN [d |-> n.d, v |-> Bytes(<<>>)] ELSE read(n.d, n.v)
           : n \in {readInt32(dd)} })

readBytes(dd) ==
    Only({ IF n.v < 0 THEN [d |-> n.d, v |-> NilBytes] ELSE read(n.d, n.v)
           : n \in {readInt32(dd)} })

readBytesTo(dd, w) ==
    Only({ IF n.v < 0 THEN [d |-> n.d, v |-> FALSE, out |-> <<>>]
           ELSE Only({ [d |-> r.d, v |-> r.d.err = None, out |-> r.out]
                       : r \in {writeTo(n.d, w, n.v)} })
           : n \in {readInt32(dd)} })

-----------------------------------------------------------------------------
(* decoder.readVarInt                                                      *)

MaxVarIntLen == 11

\* A uint64 x is held as <<l0, l1, l2, top>>: three 21-bit limbs, least
\* significant first, and bit 63.
U64Zero == <<0, 0, 0, 0>>

\* x | (uint64(v) << s) for a 7-bit v and s a multiple of 7.  The loop of
\* readVarInt writes each 7-bit group once, so the bits it ORs into are
\* clear and the OR is an addition; a shift by 63 keeps bit 0 of v only, a
\* shift by 64 or more gives 0.
OrShift(x, v, s) ==
    LET g == s \div 7
    IN  IF g <= 8 THEN [x EXCEPT ![(g \div 3) + 1] = @ + v * 2^(7 * (g % 3))]
        ELSE IF g = 9 THEN [x EXCEPT ![4] = v % 2]
        ELSE x

\* int64(x>>1), the sign left out
ZigZagUnsigned(x) ==
    [neg |-> FALSE,
     m |-> <<(x[1] \div 2) + (x[2] % 2) * 2^20,
             (x[2] \div 2) + (x[3] % 2) * 2^20,
             (x[3] \div 2) + x[4] * 2^20>>]

\* int64(x>>1) ^ -(int64(x) & 1)
ZigZag(x) ==
    [neg |-> x[1] % 2 = 1,
     m |-> <<(x[1] \div 2) + (x[2] % 2) * 2^20,
             (x[2] \div 2) + (x[3] % 2) * 2^20,
             (x[3] \div 2) + x[4] * 2^20>>]

RECURSIVE VarIntLoop(_, _, _, _)
VarIntLoop(dd, n, x, s) ==
    IF n > 0
    THEN Only({ IF r.v < 128
                THEN [d |-> r.d, v |-> ZigZag(OrShift(x, r.v, s))]
                ELSE VarIntLoop(r.d, n - 1, OrShift(x, r.v % 128, s), s + 7)
                : r \in {readByte(dd)} })
    ELSE [d |-> setError(dd, ErrVarInt), v |-> I64Zero]

readVarInt(dd) ==
    VarIntLoop(dd, IF MaxVarIntLen > dd.remain THEN dd.remain ELSE MaxVarIntLen,
               U64Zero, 0)

readCompactString(dd) ==
    Only({ IF n.v.neg THEN [d |-> n.d, v |-> <<>>]
           ELSE Only({ [d |-> r.d, v |-> bytesToString(r.v)]
                       : r \in {read(n.d, IntLen(n.v))} })
           : n \in {readVarInt(dd)} })

readCompactBytes(dd) ==
    Only({ IF n.v.neg THEN [d |-> n.d, v |-> NilBytes] ELSE read(n.d, IntLen(n.v))
           : n \in {readVarInt(dd)} })

readCompactBytesTo(dd, w) ==
    Only({ IF n.v.neg THEN [d |-> n.d, v |-> FALSE, out |-> <<>>]
           ELSE Only({ [d |-> r.d, v |-> r.d.err = None, out |-> r.out]
                       : r \in {writeTo(n.d, w, IntLen(n.v))} })
           : n \in {readVarInt(dd)} })

-----------------------------------------------------------------------------
(* Record type descriptors: what reflect and the struct tags give the      *)
(* schema compiler.                                                        *)

\* a structTag: a version interval and the encoding hint
Tag(min, max, compact) == [MinVersion |-> min, MaxVersion |-> max, Compact |-> compact]

Scalar(k) == [kind |-> k, reader |-> FALSE, elem |-> <<>>, fields |-> <<>>]
Slice(e) == [kind |-> "slice", reader |-> FALSE, elem |-> e, fields |-> <<>>]
Struct(fs) == [kind |-> "struct", reader |-> FALSE, elem |-> <<>>, fields |-> fs]
\* a struct type whose pointer implements io.ReaderFrom
ReaderFrom == [kind |-> "struct", reader |-> TRUE, elem |-> <<>>, fields |-> <<>>]

Field(name, t, tags) == [name |-> name, typ |-> t, tags |-> tags]

\* the zero value of a type
RECURSIVE Zero(_)
Zero(t) ==
    IF t.reader THEN <<>>
    ELSE CASE t.kind = "bool" -> FALSE
           [] t.kind \in {"int8", "int16", "int32"} -> 0
           [] t.kind = "int64" -> I64Zero
           [] t.kind = "string" -> <<>>
           [] t.kind = "slice" -> IF t.elem.kind = "uint8" THEN NilBytes ELSE <<>>
           [] t.kind = "struct" -> [i \in 1..Len(t.fields) |-> Zero(t.fields[i].typ)]

makeArray(elemType, n) == [i \in 1..n |-> Zero(elemType)]

-----------------------------------------------------------------------------
(* The schema compiler: decodeFuncOf and the functions it calls.  A        *)
(* decodeFunc is held as a record: f names the function, fields is the     *)
(* plan of a struct, elem and elemType are what an array decoder closes    *)
(* over.                                                                   *)

Func(f) == [f |-> f, fields |-> <<>>, elem |-> <<>>, elemType |-> <<>>]

stringDecodeFuncOf(tag) == Func("decodeString")

bytesDecodeFuncOf(tag) == Func("decodeBytes")

readerDecodeFuncOf(t) == Func("readerDecode")

RECURSIVE decodeFuncOf(_, _, _)

\* the callback returning true on a matching tag too
StructTagFuncAll(fields, t, index, tag, v) ==
    IF tag.MinVersion <= v /\ v <= tag.MaxVersion
    THEN [fields |-> Append(fields, [decode |-> decodeFuncOf(t, v, tag),
                                     index |-> index, tag |-> tag]),
          cont |-> TRUE]
    ELSE [fields |-> fields, cont |-> TRUE]

\* The callback structDecodeFuncOf hands to forEachStructTag: on a matching
\* tag it appends the field and returns false (cont), else returns true.
\* The entry's tag is a ghost: the code keeps decode and index only.
StructTagFunc(fields, t, index, tag, v) ==
    IF tag.MinVersion <= v /\ v <= tag.MaxVersion
    THEN [fields |-> Append(fields, [decode |-> decodeFuncOf(t, v, tag),
                                     index |-> index, tag |-> tag]),
          cont |-> FALSE]
    ELSE [fields |-> fields, cont |-> TRUE]

\* forEachStructTag: calls the callback on the tags in written order and
\* stops when it returns false
RECURSIVE forEachStructTag(_, _, _, _, _, _)
forEachStructTag(fields, t, index, tags, k, v) ==
    IF k > Len(tags) THEN fields
    ELSE Only({ IF r.cont THEN forEachStructTag(r.fields, t, index, tags, k + 1, v)
                ELSE r.fields
                : r \in {StructTagFunc(fields, t, index, tags[k], v)} })

\* forEachStructField: visits the fields in declared order
RECURSIVE forEachStructField(_, _, _, _)
forEachStructField(fields, t, i, v) ==
    IF i > Len(t.fields) THEN fields
    ELSE forEachStructField(
             forEachStructTag(fields, t.fields[i].typ, i, t.fields[i].tags, 1, v),
             t, i + 1, v)

structDecodeFuncOf(t, v) ==
    [Func("structDecode") EXCEPT !.fields = forEachStructField(<<>>, t, 1, v)]

arrayDecodeFuncOf(t, v, tag) ==
    [Func("decodeArray") EXCEPT !.elemType = t.elem,
                                !.elem = decodeFuncOf(t.elem, v, tag)]

decodeFuncOf(t, v, tag) ==
    IF t.reader THEN readerDecodeFuncOf(t)
    ELSE CASE t.kind = "bool" -> Func("decodeBool")
           [] t.kind = "int8" -> Func("decodeInt8")
           [] t.kind = "int16" -> Func("decodeInt16")
           [] t.kind = "int32" -> Func("decodeInt32")
           [] t.kind = "int64" -> Func("decodeInt64")
           [] t.kind = "string" -> stringDecodeFuncOf(tag)
           [] t.kind = "struct" -> structDecodeFuncOf(t, v)
           [] t.kind = "slice" ->
                IF t.elem.kind = "uint8" THEN bytesDecodeFuncOf(tag)
                ELSE arrayDecodeFuncOf(t, v, tag)

-----------------------------------------------------------------------------
(* Running a decodeFunc on the decoder and a destination value.            *)

\* What one self-decode (ReadFrom on the raw source) does is the type's own
\* business: sd.take is how many bytes it tries to take, sd.err the error
\* it returns.
\* readerDecode with the test of d.err left out
readerDecodeUnguarded(dd, val, sd) ==
    LET k == Min(sd.take, Avail(dd))
    IN  [d |-> [dd EXCEPT !.pos = @ + k, !.err = sd.err],
         v |-> SubSeq(src, dd.pos + 1, dd.pos + k)]

readerDecode(dd, val, sd) ==
    IF dd.err = None
    THEN LET k == Min(sd.take, Avail(dd))
         IN  [d |-> [dd EXCEPT !.pos = @ + k, !.err = sd.err],
              v |-> SubSeq(src, dd.pos + 1, dd.pos + k)]
    ELSE [d |-> dd, v |-> val]

RECURSIVE Decode(_, _, _, _)

\* the loop of decodeArray without the test of d.remain
RECURSIVE ArrayLoopAll(_, _, _, _, _, _)
ArrayLoopAll(dd, a, i, n, decodeElem, sd) ==
    IF i < n
    THEN Only({ ArrayLoopAll(r.d, [a EXCEPT ![i + 1] = r.v], i + 1, n, decodeElem, sd)
                : r \in {Decode(decodeElem, [dd EXCEPT !.elems = @ + 1],
                                a[i + 1], sd)} })
    ELSE [d |-> dd, v |-> a]

RECURSIVE ArrayLoop(_, _, _, _, _, _)
ArrayLoop(dd, a, i, n, decodeElem, sd) ==
    IF i < n /\ dd.remain > 0
    THEN Only({ ArrayLoop(r.d, [a EXCEPT ![i + 1] = r.v], i + 1, n, decodeElem, sd)
                : r \in {Decode(decodeElem, [dd EXCEPT !.elems = @ + 1],
                                a[i + 1], sd)} })
    ELSE [d |-> dd, v |-> a]

decodeArray(dd, elemType, decodeElem, sd) ==
    Only({ IF n.v < 0 THEN [d |-> n.d, v |-> <<>>]
           ELSE ArrayLoop(n.d, makeArray(elemType, n.v), 0, n.v, decodeElem, sd)
           : n \in {readInt32(dd)} })

\* the closure structDecodeFuncOf returns, from field i of the plan on
RECURSIVE StructDecode(_, _, _, _, _)
StructDecode(fields, i, dd, val, sd) ==
    IF i > Len(fields) THEN [d |-> dd, v |-> val]
    ELSE Only({ StructDecode(fields, i + 1, r.d,
                             [val EXCEPT ![fields[i].index] = r.v], sd)
                : r \in {Decode(fields[i].decode, dd, val[fields[i].index], sd)} })

Decode(fn, dd, val, sd) ==
    CASE fn.f = "decodeBool" -> readBool(dd)
      [] fn.f = "decodeInt8" -> readInt8(dd)
      [] fn.f = "decodeInt16" -> readInt16(dd)
      [] fn.f = "decodeInt32" -> readInt32(dd)
      [] fn.f = "decodeInt64" -> readInt64(dd)
      [] fn.f = "decodeString" -> readString(dd)
      [] fn.f = "decodeBytes" -> readBytes(dd)
      [] fn.f = "decodeArray" -> decodeArray(dd, fn.elemType, fn.elem, sd)
      [] fn.f = "structDecode" -> StructDecode(fn.fields, 1, dd, val, sd)
      [] fn.f = "readerDecode" -> readerDecode(dd, val, sd)

-----------------------------------------------------------------------------
(* The record types, versions and sources the sessions are drawn from.     *)

\* the versions a plan is compiled for are 0..TopVersion
TopVersion == 2

\* {id int32 v0-2; name string v0-1 | v1-2 compact; flag bool v2; gone int16 v5-9}
RecT == Struct(<<Field("id", Scalar("int32"), <<Tag(0, 2, FALSE)>>),
                 Field("name", Scalar("string"), <<Tag(0, 1, FALSE), Tag(1, 2, TRUE)>>),
                 Field("flag", Scalar("bool"), <<Tag(2, 2, FALSE)>>),
                 Field("gone", Scalar("int16"), <<Tag(5, 9, FALSE)>>)>>)

\* {i8 int8 v0; i16 int16 v0; i64 int64 v0; data []byte v1 | v2 compact}
NumT == Struct(<<Field("i8", Scalar("int8"), <<Tag(0, 0, FALSE)>>),
                 Field("i16", Scalar("int16"), <<Tag(0, 0, FALSE)>>),
                 Field("i64", Scalar("int64"), <<Tag(0, 0, FALSE)>>),
                 Field("data", Slice(Scalar("uint8")), <<Tag(1, 1, FALSE), Tag(2, 2, TRUE)>>)>>)

\* {a int8 v0; b int16 v0-1}: no field applies at version 2
ItemT == Struct(<<Field("a", Scalar("int8"), <<Tag(0, 0, FALSE)>>),
                  Field("b", Scalar("int16"), <<Tag(0, 1, FALSE)>>)>>)

\* {n8 int8 v0-2; items []Item v0-2}
ArrT == Struct(<<Field("n8", Scalar("int8"), <<Tag(0, 2, FALSE)>>),
                 Field("items", Slice(ItemT), <<Tag(0, 2, FALSE)>>)>>)

\* {hdr int8 v0-1; body (self-decoding) v0; tail int16 v0; bodies []body v1}
SelfT == Struct(<<Field("hdr", Scalar("int8"), <<Tag(0, 1, FALSE)>>),
                  Field("body", ReaderFrom, <<Tag(0, 0, FALSE)>>),
                  Field("tail", Scalar("int16"), <<Tag(0, 0, FALSE)>>),
                  Field("bodies", Slice(ReaderFrom), <<Tag(1, 1, FALSE)>>)>>)

\* the standard zigzag-varint encoding of a small integer i: zigzag, then
\* 7-bit groups, least significant first, top bit set on all but the last
RECURSIVE EncodeUvarint(_)
EncodeUvarint(u) ==
    IF u < 128 THEN <<u>> ELSE <<128 + (u % 128)>> \o EncodeUvarint(u \div 128)

EncodeVarInt(i) == EncodeUvarint(IF i >= 0 THEN 2 * i ELSE -2 * i - 1)

\* the signed values whose encodings the sources hold
VarIntValues == {0, -1, 1, -2, 2, 63, -64, 1000000, -1000000}

\* {id: 42, name: "ok"} in the fixed form
FrameOk == <<0, 0, 0, 42, 0, 2, 111, 107>>

\* sources of the sessions that call the decoder's methods directly
OpsSources ==
    { <<0, 0, 0, 1>> \o <<0, 2>> \o EncodeVarInt(63) \o EncodeVarInt(-64)
          \o EncodeVarInt(2) \o EncodeVarInt(-2) \o EncodeVarInt(-1),
      EncodeVarInt(1000000) \o EncodeVarInt(-1000000) \o <<255, 255, 129>>,
      <<128, 129, 128, 255, 128, 128, 128, 128, 128, 128, 128, 1>> }

\* type, version and source of the sessions that run a compiled plan
PlanSessions ==
    { <<RecT, 0, FrameOk \o <<1, 2>>>>,
      <<RecT, 1, FrameOk>>,
      <<RecT, 2, FrameOk \o <<1>>>>,
      <<RecT, 0, <<255, 255, 255, 255, 255, 255>>>>,
      <<RecT, 1, <<255, 255, 255, 255, 0, 0>>>>,
      <<NumT, 0, <<255, 128, 0, 0, 0, 0, 0, 0, 0, 1, 0, 7>>>>,
      <<NumT, 0, <<1, 0, 2, 255, 255, 255, 255, 255, 255, 255, 254>>>>,
      <<NumT, 1, <<0, 0, 0, 2, 7, 8>>>>,
      <<NumT, 1, <<255, 255, 255, 255>>>>,
      <<NumT, 2, <<0, 0, 0, 0, 9>>>>,
      <<ArrT, 0, <<5, 0, 0, 0, 2, 1, 0, 2, 3, 0, 4>>>>,
      <<ArrT, 1, <<5, 0, 0, 0, 3, 0, 1, 0, 2>>>>,
      <<ArrT, 2, <<5, 0, 0, 0, 3, 9>>>>,
      <<ArrT, 0, <<5, 255, 255, 255, 255>>>>,
      <<SelfT, 0, <<1, 2, 3, 4, 5, 6>>>>,
      <<SelfT, 1, <<1, 0, 0, 0, 2, 5, 6, 7>>>> }

\* what a self-decode may do
SelfBehaviours == [take : 0..MaxSelf, err : {None, ErrSelf}]

\* the sinks a copy is given
Sinks == {Unlimited} \cup {Limited(c) : c \in 0..MaxArg}

-----------------------------------------------------------------------------
(* The session.                                                            *)

NoOp == [op |-> "none", arg |-> 0, ret |-> 0, pre |-> [remain |-> 0, err |-> None, pos |-> 0]]

NoSetError == [rec |-> FALSE, r |-> 0, p |-> 0, r2 |-> 0, p2 |-> 0]

\* the decoder a session starts with: &decoder{reader: r, remain: L}
\* (ghost field elems: the number of calls of an array's element decoder)
NewDecoder(L) ==
    [remain |-> L, err |-> None, pos |-> 0, se |-> NoSetError, elems |-> 0,
     cur |-> 0, nest |-> 0]

\* The source's end is reached only when the frame length exceeds what the
\* source holds or a self-decode takes bytes the budget does not count;
\* other sessions never see which error the source ends with.
SeesEnd(t, L, s) == L > Len(s) \/ \E i \in 1..Len(t.fields) : t.fields[i].typ.reader

Init ==
    /\ kind \in {"discarder", "plain"}
    /\ \/ /\ mode = "ops"
          /\ src \in OpsSources
          /\ typ = Struct(<<>>)
          /\ version = 0
       \/ /\ mode = "plan"
          /\ \E s \in PlanSessions : typ = s[1] /\ version = s[2] /\ src = s[3]
    /\ budget \in 0..Min(MaxBudget, Len(src) + MaxShort)
    /\ mode = "ops" => budget >= Len(src) - MaxNext
    /\ fail \in IF SeesEnd(typ, budget, src) THEN {EOF, ErrSource} ELSE {EOF}
    /\ d = NewDecoder(budget)
    /\ plan = structDecodeFuncOf(typ, version).fields
    /\ pc = 1
    /\ dest = Zero(typ)
    /\ written = {}
    /\ last = NoOp

Pre == [remain |-> d.remain, err |-> d.err, pos |-> d.pos]

\* a direct call of a method: the decoder after it, and the record of it
Call(op, arg, dd, ret) ==
    /\ mode = "ops"
    /\ d' = dd
    /\ last' = [op |-> op, arg |-> arg, ret |-> ret, pre |-> Pre]
    /\ UNCHANGED <<src, kind, fail, budget, mode, typ, version, plan, pc, dest, written>>

DoRead ==
    \E len \in 0..MaxArg, c \in 1..MaxArg :
        \E r \in {Read(d, len, c)} :
            Call("Read", len, r.d, [n |-> r.n, err |-> r.err])

DoReadFull ==
    \E len \in 0..MaxArg :
        \E r \in {readFull(d, len)} :
            Call("readFull", len, r.d, r.ok)

DoReadN ==
    \E n \in 0..MaxArg :
        \E r \in {read(d, n)} :
            Call("read", n, r.d, r.v)

DoDiscard ==
    \E n \in 0..MaxArg : Call("discard", n, discard(d, n), 0)

DoDiscardAll == Call("discardAll", 0, discardAll(d), 0)

DoSetError ==
    \E err \in {None, ErrCaller} : Call("setError", err, setError(d, err), 0)

DoWriteTo ==
    \E n \in 0..MaxArg, w \in Sinks :
        \E r \in {writeTo(d, w, n)} :
            Call("writeTo", [n |-> n, w |-> w], r.d, r.out)

DoReadBool == \E r \in {readBool(d)} : Call("readBool", 0, r.d, r.v)

DoReadInt8 == \E r \in {readInt8(d)} : Call("readInt8", 0, r.d, r.v)

DoReadInt16 == \E r \in {readInt16(d)} : Call("readInt16", 0, r.d, r.v)

DoReadInt32 == \E r \in {readInt32(d)} : Call("readInt32", 0, r.d, r.v)

DoReadInt64 == \E r \in {readInt64(d)} : Call("readInt64", 0, r.d, r.v)

DoReadVarInt == \E r \in {readVarInt(d)} : Call("readVarInt", 0, r.d, r.v)

DoReadString == \E r \in {readString(d)} : Call("readString", 0, r.d, r.v)

DoReadCompactString ==
    \E r \in {readCompactString(d)} : Call("readCompactString", 0, r.d, r.v)

DoReadBytes == \E r \in {readBytes(d)} : Call("readBytes", 0, r.d, r.v)

DoReadCompactBytes ==
    \E r \in {readCompactBytes(d)} : Call("readCompactBytes", 0, r.d, r.v)

DoReadBytesTo ==
    \E w \in Sinks :
        \E r \in {readBytesTo(d, w)} :
            Call("readBytesTo", 0, r.d, [ok |-> r.v, out |-> r.out])

DoReadCompactBytesTo ==
    \E w \in Sinks :
        \E r \in {readCompactBytesTo(d, w)} :
            Call("readCompactBytesTo", 0, r.d, [ok |-> r.v, out |-> r.out])

\* one iteration of the loop of the plan's closure: field pc of the plan
DecodeField ==
    /\ mode = "plan"
    /\ pc <= Len(plan)
    /\ \E sd \in SelfBehaviours :
        \E r \in {Decode(plan[pc].decode, d, dest[plan[pc].index], sd)} :
            /\ d' = r.d
            /\ dest' = [dest EXCEPT ![plan[pc].index] = r.v]
            /\ last' = [op |-> plan[pc].decode.f, arg |-> sd, ret |-> r.v, pre |-> Pre]
    /\ written' = written \cup {plan[pc].index}
    /\ pc' = pc + 1
    /\ UNCHANGED <<src, kind, fail, budget, mode, typ, version, plan>>

Next ==
    \/ DoRead
    \/ DoReadFull
    \/ DoReadN
    \/ DoDiscard
    \/ DoDiscardAll
    \/ DoSetError
    \/ DoWriteTo
    \/ DoReadBool
    \/ DoReadInt8
    \/ DoReadInt16
    \/ DoReadInt32
    \/ DoReadInt64
    \/ DoReadVarInt
    \/ DoReadString
    \/ DoReadCompactString
    \/ DoReadBytes
    \/ DoReadCompactBytes
    \/ DoReadBytesTo
    \/ DoReadCompactBytesTo
    \/ DecodeField

Spec == Init /\ [][Next]_vars

-----------------------------------------------------------------------------
(* Claims.                                                                 *)

\* the operations that read through the bounded reader
ReadOps ==
    {"Read", "readFull", "readBool", "readInt8", "readInt16", "readInt32",
     "readInt64", "readVarInt", "readString", "readCompactString", "writeTo"}

\* C1: the bytes taken from the underlying source in one session never
\* exceed the frame length L the session was created with, whatever the
\* plan (self-decoding fields included) and the input.
C1_FrameBudget == d.pos <= budget

\* C2: when setError recorded the session's error with remain = r > 0 and
\* the source still held at least r bytes, then at its return remain = 0
\* and the cursor has advanced by exactly r, with and without Discard.
C2_DrainOnFirstError ==
    (d.se.rec /\ d.se.r > 0 /\ Len(src) - d.se.p >= d.se.r)
        => (d.se.r2 = 0 /\ d.se.p2 = d.se.p + d.se.r)

\* C3: once the session's error is set, no step changes it.
C3_StickyWriteOnce == [][d.err # None => d'.err = d.err]_vars

\* C3 witness: setError was called with another error after the session's
\* error was set, and the first error is still the session's.
C3_Witness ==
    /\ last.op = "setError"
    /\ last.arg = ErrCaller
    /\ last.pre.err \notin {None, ErrCaller}
    /\ d.err = last.pre.err

\* the zero value a scalar reader returns
ZeroRet(op, ret) ==
    CASE op = "readBool" -> ret = FALSE
      [] op \in {"readInt8", "readInt16", "readInt32"} -> ret = 0
      [] op \in {"readInt64", "readVarInt"} -> ret = I64Zero
      [] op \in {"readString", "readCompactString"} -> ret = <<>>
      [] OTHER -> TRUE

\* C4: a read through the bounded reader made when the error is already
\* set takes no byte from the source, leaves remain unchanged, and a scalar
\* reader returns its zero value.
C4_ReadsAfterErrorNoOp ==
    (last.op \in ReadOps /\ last.pre.err # None)
        => /\ d.pos = last.pre.pos
           /\ d.remain = last.pre.remain
           /\ ZeroRet(last.op, last.ret)

\* the plan has run to its end
Done == mode = "plan" /\ pc > Len(plan)

\* the decoders of the fixed form: fixed-width scalars, strings and byte
\* arrays with a 16-bit / 32-bit length prefix
FixedOps ==
    {"decodeBool", "decodeInt8", "decodeInt16", "decodeInt32", "decodeInt64",
     "decodeString", "decodeBytes"}

\* the width of the fixed part of a field of the fixed form
FixedWidth(f) ==
    CASE f \in {"decodeBool", "decodeInt8"} -> 1
      [] f \in {"decodeInt16", "decodeString"} -> 2
      [] f = "decodeInt32" -> 4
      [] f = "decodeBytes" -> 4
      [] f = "decodeInt64" -> 8

\* the length a length prefix at offset p of the source announces
Announced(f, p) ==
    CASE f = "decodeString" -> BeInt16(SubSeq(src, p + 1, p + 2))
      [] f = "decodeBytes" -> BeInt32(SubSeq(src, p + 1, p + 4))
      [] OTHER -> 0

\* The offset at which the encoding of the plan's fields i.. ends when
\* field i starts at offset p of the source; beyond the source when the
\* source ends inside a fixed part.
RECURSIVE NeedFrom(_, _)
NeedFrom(i, p) ==
    IF i > Len(plan) THEN p
    ELSE IF p + FixedWidth(plan[i].decode.f) > Len(src) THEN Len(src) + 1
    ELSE NeedFrom(i + 1,
                  p + FixedWidth(plan[i].decode.f)
                    + (IF Announced(plan[i].decode.f, p) > 0
                       THEN Announced(plan[i].decode.f, p) ELSE 0))

\* C5: for a plan of fixed-form fields and a budget L smaller than the
\* number of bytes the plan needs, over a source holding at least L bytes,
\* the decode ends with the sticky error set and the source cursor advanced
\* by exactly L.
C5_TruncatedFrame ==
    (/\ Done
     /\ \A i \in 1..Len(plan) : plan[i].decode.f \in FixedOps
     /\ budget <= Len(src)
     /\ budget < NeedFrom(1, 0))
        => (d.err # None /\ d.pos = budget)

\* C5 witness: the record {id, name} over the encoding of {42, "ok"} with
\* budget 5 has ended with an error and the cursor at 5.
C5_Witness ==
    /\ Done
    /\ typ = RecT /\ version = 0
    /\ Len(src) >= 8 /\ SubSeq(src, 1, 8) = FrameOk
    /\ budget = 5
    /\ d.err # None
    /\ d.pos = 5

\* a field is in the plan at version v when one of its tags contains v
HasTag(f, v) ==
    \E k \in 1..Len(f.tags) : f.tags[k].MinVersion <= v /\ v <= f.tags[k].MaxVersion

\* the first tag of the field that contains v
FirstTag(f, v) ==
    f.tags[CHOOSE k \in 1..Len(f.tags) :
               /\ f.tags[k].MinVersion <= v /\ v <= f.tags[k].MaxVersion
               /\ \A j \in 1..(k - 1) :
                      ~(f.tags[j].MinVersion <= v /\ v <= f.tags[j].MaxVersion)]

\* big-endian two's complement encodings
EncInt8(i) == <<i % 256>>
EncInt16(i) == <<(i \div 256) % 256, i % 256>>
EncInt32(i) == <<(i \div 16777216) % 256, (i \div 65536) % 256, (i \div 256) % 256, i % 256>>

\* bit i of the magnitude of an int64, byte k (0 = least significant) of it
MagBit(v, i) == IF i >= 63 THEN 0 ELSE (v.m[(i \div 21) + 1] \div 2^(i % 21)) % 2
MagByte(v, k) ==
    MagBit(v, 8 * k) + 2 * MagBit(v, 8 * k + 1) + 4 * MagBit(v, 8 * k + 2)
        + 8 * MagBit(v, 8 * k + 3) + 16 * MagBit(v, 8 * k + 4)
        + 32 * MagBit(v, 8 * k + 5) + 64 * MagBit(v, 8 * k + 6)
        + 128 * MagBit(v, 8 * k + 7)
EncInt64(v) == [j \in 1..8 |-> IF v.neg THEN 255 - MagByte(v, 8 - j) ELSE MagByte(v, 8 - j)]

\* the fixed-form encoding of a value x of type t
EncodeValue(t, x) ==
    CASE t.kind = "bool" -> <<IF x THEN 1 ELSE 0>>
      [] t.kind = "int8" -> EncInt8(x)
      [] t.kind = "int16" -> EncInt16(x)
      [] t.kind = "int32" -> EncInt32(x)
      [] t.kind = "int64" -> EncInt64(x)
      [] t.kind = "string" -> EncInt16(Len(x)) \o x
      [] t.kind = "slice" -> IF x.nil THEN EncInt32(-1) ELSE EncInt32(Len(x.b)) \o x.b

\* the encoding of the fields i.. of a record that are present at version v
RECURSIVE EncodeFields(_, _, _, _)
EncodeFields(t, v, vals, i) ==
    IF i > Len(t.fields) THEN <<>>
    ELSE (IF HasTag(t.fields[i], v) THEN EncodeValue(t.fields[i].typ, vals[i]) ELSE <<>>)
             \o EncodeFields(t, v, vals, i + 1)

\* the I64 of an integer of at most 21 bits
I64(i) == IF i < 0 THEN [neg |-> TRUE, m |-> <<-i - 1, 0, 0>>]
          ELSE [neg |-> FALSE, m |-> <<i, 0, 0>>]

\* the values a field is given in the well-formed frames
FieldValues(t) ==
    CASE t.kind = "bool" -> BOOLEAN
      [] t.kind = "int8" -> {-1, 1, 5}
      [] t.kind = "int16" -> {-32768, 2, 7}
      [] t.kind = "int32" -> {42, -1, 2}
      [] t.kind = "int64" -> {I64(-2), I64(65543)}
      [] t.kind = "string" -> {<<>>, <<111, 107>>}
      [] t.kind = "slice" -> {NilBytes, Bytes(<<>>), Bytes(<<7, 8>>)}

\* the records of type t over these values, the fields absent at version v
\* at their zero value
RECURSIVE RecordValues(_, _, _)
RecordValues(t, v, i) ==
    IF i > Len(t.fields) THEN {<<>>}
    ELSE { <<x>> \o r :
             x \in IF HasTag(t.fields[i], v) THEN FieldValues(t.fields[i].typ)
                   ELSE {Zero(t.fields[i].typ)},
             r \in RecordValues(t, v, i + 1) }

\* every field present at version v is a scalar, a string or a byte array
\* and the tag that selects it carries the fixed hint
FixedForm(t, v) ==
    \A i \in 1..Len(t.fields) :
        HasTag(t.fields[i], v) =>
            /\ ~t.fields[i].typ.reader
            /\ t.fields[i].typ.kind \in {"bool", "int8", "int16", "int32", "int64", "string"}
               \/ (t.fields[i].typ.kind = "slice" /\ t.fields[i].typ.elem.kind = "uint8")
            /\ ~FirstTag(t.fields[i], v).Compact

RecordTypes == {RecT, NumT, ItemT, ArrT, SelfT}

\* the indexes of the fields of t that have a tag containing v, increasing
SelectedIndexes(t, v) ==
    SelectSeq([i \in 1..Len(t.fields) |-> i], LAMBDA i : HasTag(t.fields[i], v))

\* the field indexes of a plan, in the plan's order
PlanIndexes(fields) == [i \in 1..Len(fields) |-> fields[i].index]

\* C7: for every record type and version the plan holds exactly the fields
\* with a tag interval containing the version, each once, in declared
\* order; a field with no such interval is never written.  (Compiling does
\* not depend on the session: the plans of all types and versions are
\* compared where a session starts, the session's own plan in every state.)
C7_PlanFieldSelection ==
    /\ last.op = "none" =>
           \A t \in RecordTypes, v \in 0..TopVersion :
               PlanIndexes(structDecodeFuncOf(t, v).fields) = SelectedIndexes(t, v)
    /\ mode = "plan" =>
           /\ PlanIndexes(plan) = SelectedIndexes(typ, version)
           /\ \A i \in 1..Len(typ.fields) :
                  ~HasTag(typ.fields[i], version) =>
                      (i \notin written /\ dest[i] = Zero(typ.fields[i].typ))

\* C7 witness: the plan of {id, name, flag, gone} at version 1, where two
\* intervals of name contain the version, has run: id and name written
\* once each, flag and gone not.
C7_Witness ==
    /\ Done
    /\ typ = RecT /\ version = 1
    /\ Len(plan) = 2
    /\ written = {1, 2}
    /\ dest[1] = 42 /\ dest[2] = <<111, 107>>

\* C8: the decoder the plan holds for a string or byte-array field is the
\* one the matched tag's hint selects: compact gives the varint-prefixed
\* decoder, fixed the 16-bit / 32-bit prefixed one.
C8_EncodingByHint ==
    \A i \in 1..Len(plan) :
        /\ typ.fields[plan[i].index].typ.kind = "string" =>
               plan[i].decode.f = (IF plan[i].tag.Compact THEN "decodeCompactString"
                                   ELSE "decodeString")
        /\ (typ.fields[plan[i].index].typ.kind = "slice"
                /\ typ.fields[plan[i].index].typ.elem.kind = "uint8") =>
               plan[i].decode.f = (IF plan[i].tag.Compact THEN "decodeCompactBytes"
                                   ELSE "decodeBytes")

\* C9: a self-decode is invoked only when no error is set, and an error it
\* returns is recorded through setError: it becomes the session's error and
\* the frame's remaining budget is drained at once.
C9_SelfDecodeErrorDrains ==
    /\ (last.op = "readerDecode" /\ last.pre.err # None) => d.pos = last.pre.pos
    /\ (/\ last.op = "readerDecode"
        /\ last.pre.err = None
        /\ last.arg.err # None
        /\ last.pre.remain > 0
        /\ Len(src) - d.pos >= last.pre.remain)
           => /\ d.err = last.arg.err
              /\ d.remain = 0

\* the encoding of v lies at offset p of the source
EncodedAt(v, p) ==
    /\ p + Len(EncodeVarInt(v)) <= Len(src)
    /\ SubSeq(src, p + 1, p + Len(EncodeVarInt(v))) = EncodeVarInt(v)

\* C10: readVarInt applied to the zigzag-varint encoding of v, with no
\* error set and remain at least the encoding's length, returns v, sets no
\* error and decrements remain by the length of the encoding.
C10_VarIntRoundTrip ==
    \A v \in VarIntValues :
        (/\ last.op = "readVarInt"
         /\ last.pre.err = None
         /\ EncodedAt(v, last.pre.pos)
         /\ Len(EncodeVarInt(v)) <= last.pre.remain)
            => /\ last.ret = I64(v)
               /\ d.err = None
               /\ d.remain = last.pre.remain - Len(EncodeVarInt(v))
               /\ d.pos = last.pre.pos + Len(EncodeVarInt(v))

\* C10 witness: readVarInt has read the three bytes of -1000000.
C10_Witness ==
    /\ last.op = "readVarInt"
    /\ last.pre.err = None
    /\ EncodedAt(-1000000, last.pre.pos)
    /\ last.ret = I64(-1000000)
    /\ d.err = None
    /\ d.remain = last.pre.remain - 3

\* the last operation was op (called directly or as a plan's field decoder)
\* with no error set, and its w-byte length prefix lay within the budget
\* and the source
PrefixRead(ops, w) ==
    /\ last.op \in ops
    /\ last.pre.err = None
    /\ last.pre.remain >= w
    /\ last.pre.pos + w <= Len(src)

\* the length prefixes at the cursor the last operation started from
Prefix16 == BeInt16(SubSeq(src, last.pre.pos + 1, last.pre.pos + 2))
Prefix32 == BeInt32(SubSeq(src, last.pre.pos + 1, last.pre.pos + 4))

\* the last operation took exactly its w-byte prefix and set no error
PrefixOnly(w) ==
    /\ d.pos = last.pre.pos + w
    /\ d.remain = last.pre.remain - w
    /\ d.err = None

\* C11: readBytes returns the absent array for a negative length prefix and
\* a present, empty array for a zero prefix, and the two differ; readString
\* returns the empty string for both; in each of these cases only the
\* prefix is taken and no error is set.
C11_AbsentVersusEmpty ==
    /\ PrefixRead({"readBytes", "decodeBytes"}, 4) =>
           /\ Prefix32 < 0 => (last.ret = NilBytes /\ PrefixOnly(4))
           /\ Prefix32 = 0 =>
                  (last.ret = Bytes(<<>>) /\ last.ret # NilBytes /\ PrefixOnly(4))
    /\ PrefixRead({"readString", "decodeString"}, 2) =>
           (Prefix16 <= 0 => (last.ret = <<>> /\ PrefixOnly(2)))

\* C11 witness: readBytes has returned the absent array for a negative
\* prefix, with only the prefix taken.
C11_Witness ==
    /\ PrefixRead({"readBytes"}, 4)
    /\ Prefix32 < 0
    /\ last.ret = NilBytes
    /\ PrefixOnly(4)

\* the field the plan's last step decoded, and its type
LastIndex == plan[pc - 1].index
LastType == typ.fields[LastIndex].typ

\* the value holds no decoded data: the zero value, or a byte array without
\* bytes
NoData(t, x) == x = Zero(t) \/ (t.kind = "slice" /\ t.elem.kind = "uint8" /\ x.b = <<>>)

\* C12: when a decode into a fresh record ends with an error, the field
\* whose decode raised it and every field decoded after it hold their
\* default; a string or byte-array field cut short receives no prefix of
\* its payload.  Stated for the fixed-form decoders, step by step: a field
\* decoded with the error set at its return holds no decoded data.
C12_DefaultAfterFailure ==
    (mode = "plan" /\ pc > 1 /\ last.op \in FixedOps /\ d.err # None)
        => NoData(LastType, dest[LastIndex])

\* C13: Read returns the sticky error and takes no byte when the error is
\* set; returns end-of-input and takes no byte when remain = 0; otherwise
\* takes at most min(len(buf), remain) bytes and decrements remain by the
\* number of bytes the source returned.  remain >= 0 in every state.
C13_BoundedRead ==
    /\ d.remain >= 0
    /\ last.op = "Read" =>
           /\ d.pos = last.pre.pos + last.ret.n
           /\ d.remain = last.pre.remain - last.ret.n
           /\ d.err = last.pre.err
           /\ IF last.pre.err # None
              THEN last.ret.n = 0 /\ last.ret.err = last.pre.err
              ELSE IF last.pre.remain = 0
              THEN last.ret.n = 0 /\ last.ret.err = EOF
              ELSE /\ last.ret.n >= 0
                   /\ last.ret.n <= Min(last.arg, last.pre.remain)

\* C13 witness: Read was given a buffer longer than remain and returned
\* exactly the remain bytes.
C13_Witness ==
    /\ last.op = "Read"
    /\ last.pre.err = None
    /\ last.pre.remain > 0
    /\ last.arg > last.pre.remain
    /\ last.ret.n = last.pre.remain
    /\ d.remain = 0

\* the sink accepts n bytes
Accepts(w, n) == ~w.limited \/ w.cap >= n

\* C14: writeTo(w, n) called with no error set and n >= 0.  With
\* n > remain it sets io.ErrUnexpectedEOF and the sink receives nothing.
\* Otherwise, when the source holds n bytes and the sink accepts them, the
\* sink receives exactly the next n bytes of the frame, no error is set,
\* remain drops by n and the cursor advances by n; and whenever the sink
\* received fewer than n bytes an error is set.
C14_WriteTo ==
    (last.op = "writeTo" /\ last.pre.err = None) =>
        /\ last.arg.n > last.pre.remain =>
               (d.err = ErrUnexpectedEOF /\ last.ret = <<>>)
        /\ (/\ last.arg.n <= last.pre.remain
            /\ Len(src) - last.pre.pos >= last.arg.n
            /\ Accepts(last.arg.w, last.arg.n)) =>
               /\ last.ret = SubSeq(src, last.pre.pos + 1, last.pre.pos + last.arg.n)
               /\ d.err = None
               /\ d.remain = last.pre.remain - last.arg.n
               /\ d.pos = last.pre.pos + last.arg.n
        /\ Len(last.ret) < last.arg.n => d.err # None
        /\ Len(last.ret) <= last.arg.n

\* C14 witness: writeTo has copied 2 bytes of a frame that holds more, into
\* a sink that accepts them.
C14_Witness ==
    /\ last.op = "writeTo"
    /\ last.pre.err = None
    /\ last.arg.n = 2
    /\ last.pre.remain > 2
    /\ Len(last.ret) = 2
    /\ d.err = None
    /\ d.remain = last.pre.remain - 2

\* C15: discard(n) skips at most min(n, remain) bytes of the source and
\* decrements remain by the number of bytes skipped, with and without
\* Discard; with n < remain and no error the remain - n bytes after the
\* skipped ones are still in the frame.
C15_Discard ==
    last.op = "discard" =>
        /\ d.pos - last.pre.pos <= Min(last.arg, last.pre.remain)
        /\ d.remain = last.pre.remain - (d.pos - last.pre.pos)
        /\ (last.arg < last.pre.remain /\ d.err = None) =>
               d.remain = last.pre.remain - last.arg

\* the bytes of the frame a readVarInt called in the state before the last
\* operation can take: at most MaxVarIntLen, within remain and the source
VarIntReach == Min(Min(MaxVarIntLen, last.pre.remain), Len(src) - last.pre.pos)

\* none of them has its top bit clear
NoTerminator ==
    \A k \in 1..VarIntReach : src[last.pre.pos + k] >= 128

\* C16: readVarInt called with no error set takes at most min(11, remain)
\* bytes to decode; if none of the bytes it can take has its top bit clear
\* (remain = 0 included) it returns 0 and the error becomes the varint
\* error; it returns without error only when it read a byte with the top
\* bit clear.
C16_MalformedVarInt ==
    (last.op = "readVarInt" /\ last.pre.err = None) =>
        /\ NoTerminator => (last.ret = I64Zero /\ d.err = ErrVarInt)
        /\ d.err = None =>
               /\ d.pos - last.pre.pos \in 1..VarIntReach
               /\ src[d.pos] < 128

\* the last step decoded an array of Item records whose count was read: no
\* error was set and the 4 bytes of the count lay in the budget and the
\* source
ItemArrayDecoded ==
    /\ mode = "plan" /\ pc > 1
    /\ last.op = "decodeArray"
    /\ LastType.elem = ItemT
    /\ last.pre.err = None
    /\ last.pre.remain >= 4
    /\ last.pre.pos + 4 <= Len(src)

\* the number of bytes of one encoded Item at the session's version
ItemSize == Len(EncodeFields(ItemT, version, Zero(ItemT), 1))

\* the budget left for the elements, and the number of whole elements the
\* budget and the count allow
ItemBudget == last.pre.remain - 4
ItemsWhole == Min(Prefix32, ItemBudget \div ItemSize)

\* the bytes of element j (from 1) of the array
ItemBytes(j) ==
    SubSeq(src, last.pre.pos + 4 + (j - 1) * ItemSize + 1,
                last.pre.pos + 4 + j * ItemSize)

\* C17: with a negative count the array decoder yields an empty array and
\* decodes no element; with a count n >= 0 it decodes the elements in index
\* order and stops once remain = 0, the elements not reached keeping their
\* default; when the budget ends on an element boundary after k < n
\* elements no error is set and the first k elements hold their values.
C17_ArrayEarlyStop ==
    ItemArrayDecoded =>
        /\ Prefix32 < 0 =>
               /\ last.ret = <<>>
               /\ d.pos = last.pre.pos + 4
               /\ d.err = None
        /\ (/\ Prefix32 >= 0
            /\ ItemSize > 0
            /\ last.pre.pos + last.pre.remain <= Len(src)) =>
               /\ Len(last.ret) = Prefix32
               /\ \A j \in 1..ItemsWhole :
                      EncodeFields(ItemT, version, last.ret[j], 1) = ItemBytes(j)
               /\ \A j \in (ItemsWhole + 2)..Prefix32 : last.ret[j] = Zero(ItemT)
               /\ (ItemBudget % ItemSize = 0 /\ ItemsWhole < Prefix32) =>
                      /\ d.err = None
                      /\ d.remain = 0
                      /\ last.ret[ItemsWhole + 1] = Zero(ItemT)

\* C17 witness: a count of 2 three-byte elements with a budget that ends
\* after the first: no error, the first element decoded, the second at its
\* default.
C17_Witness ==
    /\ ItemArrayDecoded
    /\ Prefix32 = 2 /\ ItemSize = 3 /\ ItemBudget = 3
    /\ d.err = None /\ d.remain = 0
    /\ last.ret = <<<<1, 2>>, <<0, 0>>>>

\* C18: the number of element decode operations of one array decode is at
\* most the number of bytes left in the budget right after the count was
\* read, for every count, element type and source kind, also when an error
\* occurs during the array decode.
C18_ArrayWorkBounded ==
    (mode = "plan" /\ pc > 1 /\ last.op = "decodeArray") =>
        d.elems <= (IF last.pre.remain >= 4 THEN last.pre.remain - 4 ELSE 0)

\* remain accounts for the bytes taken: remain = L - bytes taken
Accounted(remain, pos) == remain = budget - pos

\* C19: at the return of every operation that goes through the bounded
\* reader, remain equals the initial budget L minus the number of bytes
\* taken from the source, also when writeTo ends with an error because the
\* source ran short.  Stated for one call made with no error set in a state
\* where the accounting held.
C19_BudgetAccounting ==
    (/\ mode = "ops"
     /\ last.op # "none"
     /\ last.pre.err = None
     /\ Accounted(last.pre.remain, last.pre.pos))
        => Accounted(d.remain, d.pos)

\* C20: every call of setError, discardAll and discard returns, with no
\* call of setError entered inside more than one other; every typed read
\* returns and a plan runs one field per step to its end, whether or not an
\* error is set.
C20_ErrorHandlingTerminates ==
    /\ [](/\ d.nest <= 1
          /\ d.cur = 0
          /\ mode = "ops" =>
                 /\ ENABLED DoSetError
                 /\ ENABLED DoDiscardAll
                 /\ ENABLED DoDiscard
                 /\ ENABLED DoReadVarInt
                 /\ ENABLED DoReadCompactString
                 /\ ENABLED DoReadInt64
          /\ mode = "plan" =>
                 /\ pc <= Len(plan) + 1
                 /\ pc <= Len(plan) => ENABLED DecodeField)
    /\ [][mode = "plan" => pc' = pc + 1]_vars

\* C20 witness: setError recorded an error with budget left, the drain ran
\* with one call of setError inside it, and the call has returned.
C20_Witness ==
    /\ last.op = "setError"
    /\ last.pre.err = None
    /\ last.pre.remain > 0
    /\ d.err = ErrCaller
    /\ d.nest = 1
    /\ d.cur = 0

====
